---- MODULE Spec2Model ----
(***************************************************************************)
(* Duplicate scan and cleanup wizard of emby_scanner.py                    *)
(* (EmbyScannerPro.run_scanner and EmbyScannerPro.manual_select_wizard).   *)
(*                                                                         *)
(* One library of the media server is scanned: its catalog records are     *)
(* bucketed by a grouping key, the buckets are filtered and ordered, and   *)
(* the cleanup wizard plans and sends the DELETE requests.                 *)
(*                                                                         *)
(* Conventions.  A JSON field that may be missing is a sequence of length  *)
(* at most one: <<>> is "key absent", <<v>> is "key present with value v". *)
(* A path is a sequence of character codes, so that os.path.basename, len  *)
(* and string comparison are computed and not assumed.                     *)
(***************************************************************************)
EXTENDS Integers, Sequences, FiniteSets, TLC

(***************************************************************************)
(* Bounds of the model.                                                    *)
(***************************************************************************)
\* Media sources (plus source-less items) in the catalog of the library.
MaxFiles == 3
\* Numbers the operator types at one "delete which" prompt.
MaxSel == 2
\* The number of times the scan is started from the main menu.
MaxRuns == 3
\* The page size of _fetch_all_items (limit_per_page, 5000 in the program).
limit_per_page == 2

(***************************************************************************)
(* Characters and paths.                                                   *)
(***************************************************************************)
\* Character codes: '/' is 47, 'a' 97, 'b' 98, 'd' 100.
\* "/b", "/dd/a", "/ab": base names b, a, ab.  The first two tie in length,
\* the second is the longest path with the shortest base name.
PathB == <<47, 98>>
PathDA == <<47, 100, 100, 47, 97>>
PathAB == <<47, 97, 98>>
Paths == {PathB, PathDA, PathAB}

\* os.path.basename (posixpath): the part after the last '/' (code 47).
basename(p) ==
    LET slashes == {i \in 1..Len(p) : p[i] = 47}
        i == IF slashes = {} THEN 0
             ELSE CHOOSE m \in slashes : \A n \in slashes : n <= m
    IN  SubSeq(p, i + 1, Len(p))

\* Python's str "<": lexicographic by code point, a proper prefix is smaller.
StrLess(a, b) ==
    \E k \in 1..(Len(b)) :
        /\ k <= Len(a) + 1
        /\ \A j \in 1..(k - 1) : a[j] = b[j]
        /\ \/ k = Len(a) + 1
           \/ (k <= Len(a) /\ a[k] < b[k])

(***************************************************************************)
(* Raw catalog records.                                                    *)
(***************************************************************************)
Get(field, default) == IF field = <<>> THEN default ELSE field[1]

Ids == {"i1", "i2"}

\* The server names a media source after its item and its place in the item:
\* two records of one source (the same item listed twice) carry the same Id.
RECURSIVE WithSourceIds(_, _)
WithSourceIds(id, ms) ==
    IF ms = <<>> THEN <<>>
    ELSE WithSourceIds(id, SubSeq(ms, 1, Len(ms) - 1))
         \o <<[Id |-> <<id, Len(ms)>>, Path |-> ms[Len(ms)].Path,
               Size |-> ms[Len(ms)].Size,
               MediaStreams |-> ms[Len(ms)].MediaStreams]>>

\* A media source without usable size is dropped before any other field of it
\* is read, so one such source stands for all of them.
NoSizeSource == [Path |-> PathB, Size |-> <<0>>, MediaStreams |-> <<>>]
SourcesOf(paths, sizes) ==
    [Path : paths, Size : {<<n>> : n \in sizes}, MediaStreams : {<<>>}]
        \cup {NoSizeSource}

\* JSON null in a number field, None to the program: equal to no season or
\* episode number the catalog holds and not to the sentinel -1.
Null == -2

NoEpisode == [SeriesName |-> <<>>, ParentIndexNumber |-> <<>>, IndexNumber |-> <<>>]
EpisodesOf(series, seasons, numbers) ==
    [SeriesName : series, ParentIndexNumber : seasons, IndexNumber : numbers]

RECURSIVE SeqsOfLen(_, _)
SeqsOfLen(S, n) ==
    IF n = 0 THEN {<<>>}
    ELSE {<<x>> \o t : x \in S, t \in SeqsOfLen(S, n - 1)}

\* The items with n media sources (n = 0: an item without MediaSources) over
\* a domain D = [Names, Sources, Episodes].
ItemsWith(D, n) ==
    {[Id |-> id, Name |-> <<nm>>, SeriesName |-> ep.SeriesName,
      ParentIndexNumber |-> ep.ParentIndexNumber, IndexNumber |-> ep.IndexNumber,
      MediaSources |-> WithSourceIds(id, ms)] :
        id \in (IF n = 0 THEN {"i1"} ELSE Ids),
        nm \in (IF n = 0 THEN {"n1"} ELSE D.Names),
        ep \in (IF n = 0 THEN {NoEpisode} ELSE D.Episodes),
        ms \in SeqsOfLen(D.Sources, n)}

Weight(n) == IF n = 0 THEN 1 ELSE n

\* Catalogs whose items weigh w in all: a source weighs 1, a source-less item 1.
RECURSIVE CatalogsOf(_, _)
CatalogsOf(D, w) ==
    IF w = 0 THEN {<<>>}
    ELSE UNION {
             {<<it>> \o rest : it \in ItemsWith(D, n),
                               rest \in CatalogsOf(D, w - Weight(n))} :
             n \in 0..w}

Catalogs(D, maxw) == UNION {CatalogsOf(D, w) : w \in 0..maxw}

\* The catalogs of the whole program's specification: two usable sizes, two
\* paths whose base names differ in length.
WizardDomain(ctype) ==
    [Names |-> {"n1"},
     Sources |-> SourcesOf({PathDA, PathAB}, {1, 2}),
     Episodes |-> IF ctype = "tvshows"
                  THEN EpisodesOf({<<"A">>}, {<<1>>}, {<<1>>}) ELSE {NoEpisode}]

\* The catalogs of the scan's specification: two usable sizes, three paths, one
\* episode ...
ScanDomain(ctype) ==
    [Names |-> {"n1"},
     Sources |-> SourcesOf(Paths, {1, 2}),
     Episodes |-> IF ctype = "tvshows"
                  THEN EpisodesOf({<<"A">>}, {<<1>>}, {<<1>>}) ELSE {NoEpisode}]

\* ... and the pairs of single-source items: movies of two titles, episodes
\* over two series and every combination of season and episode number, each
\* present or absent.
PairDomain(ctype) ==
    [Names |-> IF ctype = "tvshows" THEN {"n1"} ELSE {"n1", "n2"},
     Sources |-> SourcesOf({PathB, PathAB}, {1, 2}) \ {NoSizeSource},
     Episodes |-> IF ctype = "tvshows"
                  THEN EpisodesOf({<<"A">>, <<"B">>}, {<<>>, <<1>>, <<2>>},
                                  {<<>>, <<1>>, <<2>>})
                  ELSE {NoEpisode}]

PairCatalogs(ctype) ==
    {<<a, b>> : a \in {it \in ItemsWith(PairDomain(ctype), 1) : it.Id = "i1"},
                b \in ItemsWith(PairDomain(ctype), 1)}

\* Catalogs of four single-source items: two with a size, paths apart, and two
\* whose Size is missing or zero, over both paths and both ids.
SizelessDomain(ctype) ==
    [Names |-> {"n1"},
     Sources |-> [Path : {PathDA, PathAB}, Size : {<<>>, <<0>>, <<1>>},
                  MediaStreams : {<<>>}],
     Episodes |-> IF ctype = "tvshows"
                  THEN EpisodesOf({<<"A">>}, {<<1>>}, {<<1>>}) ELSE {NoEpisode}]

SizelessCatalogs(ctype) ==
    LET one == ItemsWith(SizelessDomain(ctype), 1)
        sized(path) == {it \in one : /\ it.MediaSources[1].Size = <<1>>
                                     /\ it.MediaSources[1].Path = path}
        sizeless == {it \in one : it.MediaSources[1].Size # <<1>>}
    IN  {<<a, b, c, d>> : a \in {it \in sized(PathDA) : it.Id = "i1"},
                          b \in sized(PathAB), c \in sizeless, d \in sizeless}

\* Catalogs of four sources that can make two groups: an item with a source
\* of size 1 and one of size 2, and two single-source items.
CrossDomain(ctype) ==
    [Names |-> {"n1"},
     Sources |-> SourcesOf({PathDA, PathAB}, {1, 2}) \ {NoSizeSource},
     Episodes |-> IF ctype = "tvshows"
                  THEN EpisodesOf({<<"A">>}, {<<1>>}, {<<1>>}) ELSE {NoEpisode}]

CrossCatalogs(ctype) ==
    {<<x, y, z>> :
        x \in {it \in ItemsWith(CrossDomain(ctype), 2) :
                  /\ it.Id = "i1"
                  /\ it.MediaSources[1].Size = <<1>>
                  /\ it.MediaSources[2].Size = <<2>>},
        y \in ItemsWith(CrossDomain(ctype), 1),
        z \in ItemsWith(CrossDomain(ctype), 1)}

\* The video streams a media source can list: none, one of 3840x2160, one of
\* 1920x1080.
Streams ==
    {<<>>, <<[Width |-> 3840, Height |-> 2160]>>, <<[Width |-> 1920, Height |-> 1080]>>}

\* Pairs of single-source items of one size that differ in title and in video
\* streams as well as in id and path.
InfoDomain(ctype) ==
    [Names |-> {"n1", "n2"},
     Sources |-> [Path : {PathDA, PathAB}, Size : {<<1>>}, MediaStreams : Streams],
     Episodes |-> IF ctype = "tvshows"
                  THEN EpisodesOf({<<"A">>}, {<<>>, <<1>>}, {<<1>>}) ELSE {NoEpisode}]

InfoCatalogs(ctype) ==
    {<<a, b>> : a \in {it \in ItemsWith(InfoDomain(ctype), 1) : it.Id = "i1"},
                b \in ItemsWith(InfoDomain(ctype), 1)}

\* Pairs and triples of single-source items of one episode or of no episode.
RerunCatalogs(ctype) ==
    LET one == ItemsWith(CrossDomain(ctype), 1)
        first == {it \in one : it.Id = "i1"}
        last == {it \in one : it.Id = "i2"}
    IN  {<<a, b>> : a \in first, b \in one}
            \cup {<<a, b, c>> : a \in first, b \in one, c \in last}

\* Pairs of single-source items of one size whose Path is a string or null and
\* whose season and episode numbers are missing, a number or null.  A null
\* Path is the empty tuple; no path of the model is the empty string.
MalformedDomain(ctype) ==
    [Names |-> {"n1"},
     Sources |-> [Path : {<<>>, PathB, PathAB}, Size : {<<1>>},
                  MediaStreams : {<<>>}],
     Episodes |-> IF ctype = "tvshows"
                  THEN EpisodesOf({<<"A">>}, {<<>>, <<1>>, <<Null>>},
                                  {<<>>, <<1>>, <<Null>>})
                  ELSE {NoEpisode}]

MalformedCatalogs(ctype) ==
    {<<a, b>> : a \in {it \in ItemsWith(MalformedDomain(ctype), 1) : it.Id = "i1"},
                b \in ItemsWith(MalformedDomain(ctype), 1)}

\* The catalogs of the request-by-request specification: one usable size,
\* two paths, so that every catalog of three files gives two delete tasks.
RequestDomain(ctype) ==
    [Names |-> {"n1"},
     Sources |-> SourcesOf({PathAB, PathDA}, {1}),
     Episodes |-> IF ctype = "tvshows" THEN EpisodesOf({<<"A">>}, {<<1>>}, {<<1>>})
                  ELSE {NoEpisode}]

RequestCatalogs(ctype) == Catalogs(RequestDomain(ctype), MaxFiles)

ScanCatalogs(ctype) == Catalogs(ScanDomain(ctype), MaxFiles) \cup PairCatalogs(ctype)

(***************************************************************************)
(* run_scanner: bucketing (lines 386-430).                                 *)
(***************************************************************************)
\* Variant of GroupKey: a movie is keyed by its title and its size.
GroupKeyTitleAndSize(ctype, mode, item, size) ==
    IF ctype = "tvshows"
    THEN LET s_name == Get(item.SeriesName, "")
             s == Get(item.ParentIndexNumber, -1)
             e == Get(item.IndexNumber, -1)
         IN  IF mode = "loose" THEN <<s_name, s, e>> ELSE <<s_name, s, e, size>>
    ELSE <<item.Name, size>>

\* Variant of GroupKey: the strict mode keys an episode without its size.
GroupKeyNoSize(ctype, mode, item, size) ==
    IF ctype = "tvshows"
    THEN <<Get(item.SeriesName, ""), Get(item.ParentIndexNumber, -1),
           Get(item.IndexNumber, -1)>>
    ELSE size

\* Variant of GroupKey: an episode is keyed by series, season and size.
GroupKeyNoEpisode(ctype, mode, item, size) ==
    IF ctype = "tvshows"
    THEN LET s_name == Get(item.SeriesName, "")
             s == Get(item.ParentIndexNumber, -1)
         IN  IF mode = "loose" THEN <<s_name, s>> ELSE <<s_name, s, size>>
    ELSE size

\* Variant of GroupKey: an episode without season number is keyed as one of
\* season 1.
GroupKeyDefaultSeason(ctype, mode, item, size) ==
    IF ctype = "tvshows"
    THEN LET s_name == Get(item.SeriesName, "")
             s == Get(item.ParentIndexNumber, 1)
             e == Get(item.IndexNumber, -1)
         IN  IF mode = "loose" THEN <<s_name, s, e>> ELSE <<s_name, s, e, size>>
    ELSE size

\* Variant of GroupKey: a movie is keyed by its title.
GroupKeyMovieTitle(ctype, mode, item, size) ==
    IF ctype = "tvshows"
    THEN LET s_name == Get(item.SeriesName, "")
             s == Get(item.ParentIndexNumber, -1)
             e == Get(item.IndexNumber, -1)
         IN  IF mode = "loose" THEN <<s_name, s, e>> ELSE <<s_name, s, e, size>>
    ELSE item.Name

\* The grouping key of one media source (lines 405-420).
GroupKey(ctype, mode, item, size) ==
    IF ctype = "tvshows"
    THEN LET s_name == Get(item.SeriesName, "")
             s == Get(item.ParentIndexNumber, -1)
             e == Get(item.IndexNumber, -1)
         IN  IF mode = "loose" THEN <<s_name, s, e>> ELSE <<s_name, s, e, size>>
    ELSE size

\* display_name (lines 409-410, 419): "<series> SxxEyy" for a numbered episode,
\* the item's Name otherwise.
DisplayName(ctype, item) ==
    IF ctype = "tvshows"
    THEN LET s_name == Get(item.SeriesName, "")
             s == Get(item.ParentIndexNumber, -1)
             e == Get(item.IndexNumber, -1)
         IN  IF s # -1 /\ e # -1 THEN <<s_name, " S", s, "E", e>> ELSE item.Name
    ELSE item.Name

\* get_video_info (lines 301-328), as far as the resolution label of the first
\* video stream (lines 303-312): the labels joined by " | " are a tuple.  The
\* codec, HDR, language and release-group labels that follow are left out.
get_video_info(item, source) ==
    IF source.MediaStreams = <<>> THEN <<>>
    ELSE LET width == source.MediaStreams[1].Width
             height == source.MediaStreams[1].Height
         IN  IF width >= 3800 \/ height >= 2100 THEN <<"4K">>
             ELSE IF width >= 1900 \/ height >= 1000 THEN <<"1080P">>
             ELSE IF width >= 1200 \/ height >= 700 THEN <<"720P">>
             ELSE <<"SD">>

\* The file record appended to a bucket (lines 422-430).  The record's 'year'
\* is a display field copied from the item; it is read by nothing.
FileRecord(ctype, item, source) ==
    [id |-> item.Id,
     media_source_id |-> source.Id,
     name |-> DisplayName(ctype, item),
     path |-> source.Path,
     size |-> Get(source.Size, 0),
     info |-> get_video_info(item, source)]

\* Variant of BucketAppend: the file goes to the front of its bucket.
BucketAppendFront(buckets, key, file) ==
    IF \E i \in 1..Len(buckets) : buckets[i].key = key
    THEN [i \in 1..Len(buckets) |->
             IF buckets[i].key = key
             THEN [key |-> key, files |-> <<file>> \o buckets[i].files]
             ELSE buckets[i]]
    ELSE Append(buckets, [key |-> key, files |-> <<file>>])

\* groups[key].append(file) on a defaultdict(list): buckets keep the order in
\* which their keys were first seen, members the order in which they came.
BucketAppend(buckets, key, file) ==
    IF \E i \in 1..Len(buckets) : buckets[i].key = key
    THEN [i \in 1..Len(buckets) |->
             IF buckets[i].key = key
             THEN [key |-> key, files |-> Append(buckets[i].files, file)]
             ELSE buckets[i]]
    ELSE Append(buckets, [key |-> key, files |-> <<file>>])

\* Variant of HasSize: only a missing Size is skipped (`if size is None`).
HasSizeKey(source) == source.Size # <<>>

\* `if not size: continue` (lines 396-397): a missing Size is None, and None
\* and 0 are both false.
HasSize(source) == Get(source.Size, 0) # 0

\* The bucket a key leads to: its place among the keys seen, or the next place.
BucketIndex(buckets, key) ==
    IF \E i \in 1..Len(buckets) : buckets[i].key = key
    THEN CHOOSE i \in 1..Len(buckets) : buckets[i].key = key
    ELSE Len(buckets) + 1

\* f"{s_name} S{s:02d}E{e:02d}" (line 409) is evaluated when neither s nor e is
\* the sentinel -1; the format code 02d raises TypeError on None.
FormatRaises(ctype, item) ==
    LET s == Get(item.ParentIndexNumber, -1)
        e == Get(item.IndexNumber, -1)
    IN  ctype = "tvshows" /\ s # -1 /\ e # -1 /\ (s = Null \/ e = Null)

\* The state of a scan before the first record: no bucket, the counters of
\* lines 384-385 at zero, nothing raised.
ScanStart ==
    [buckets |-> <<>>, placed |-> <<>>, lib_file_count |-> 0,
     lib_total_bytes |-> 0, raised |-> FALSE]

\* The loop over the media sources of item i, from source j on (lines 395-430).
\* acc.buckets is `groups`; acc.placed notes, for every append, the source
\* appended and the bucket it went to; acc.raised is set when line 409 raises,
\* which ends the loops.
RECURSIVE ScanSources(_, _, _, _, _, _)
ScanSources(ctype, mode, its, i, j, acc) ==
    IF acc.raised \/ j > Len(its[i].MediaSources) THEN acc
    ELSE LET source == its[i].MediaSources[j]
             size == Get(source.Size, 0)
             key == GroupKey(ctype, mode, its[i], size)
             counted == [acc EXCEPT !.lib_total_bytes = @ + size,
                                    !.lib_file_count = @ + 1]
         IN  IF ~HasSize(source)
             THEN ScanSources(ctype, mode, its, i, j + 1, acc)
             ELSE IF FormatRaises(ctype, its[i])
             THEN [counted EXCEPT !.raised = TRUE]
             ELSE ScanSources(ctype, mode, its, i, j + 1,
                      [counted EXCEPT
                          !.buckets = BucketAppend(acc.buckets, key,
                                          FileRecord(ctype, its[i], source)),
                          !.placed = Append(acc.placed,
                                         [item |-> i, source |-> j,
                                          bucket |-> BucketIndex(acc.buckets, key)])])

\* The loop over the library's items, from item i on (lines 388-430).
RECURSIVE ScanItems(_, _, _, _, _)
ScanItems(ctype, mode, its, i, acc) ==
    IF acc.raised \/ i > Len(its) THEN acc
    ELSE ScanItems(ctype, mode, its, i + 1, ScanSources(ctype, mode, its, i, 1, acc))

(***************************************************************************)
(* run_scanner: filter and order (lines 436-458).                          *)
(***************************************************************************)
\* The sort key of lines 446-451.
SortKey(ctype, mode, f) ==
    IF mode = "loose" /\ ctype = "tvshows" THEN f.size ELSE Len(basename(f.path))

\* sorted(group, key=..., reverse=True): a stable sort, so members with equal
\* keys keep the order of the bucket.  x, the latest comer, goes behind every
\* member whose key is at least its own.
RECURSIVE InsertDesc(_, _, _, _)
InsertDesc(ctype, mode, sorted, x) ==
    IF sorted = <<>> THEN <<x>>
    ELSE IF SortKey(ctype, mode, Head(sorted)) >= SortKey(ctype, mode, x)
         THEN <<Head(sorted)>> \o InsertDesc(ctype, mode, Tail(sorted), x)
         ELSE <<x>> \o sorted

RECURSIVE SortedGroup(_, _, _)
SortedGroup(ctype, mode, group) ==
    IF group = <<>> THEN <<>>
    ELSE InsertDesc(ctype, mode,
             SortedGroup(ctype, mode, SubSeq(group, 1, Len(group) - 1)),
             group[Len(group)])

UniquePaths(group) == {group[i].path : i \in 1..Len(group)}

\* Variant of Qualifies: the path test of lines 454-455 is left out.
QualifiesByCount(group) == Len(group) > 1

\* A bucket is reported when it has more than one member (line 436) and more
\* than one distinct path (lines 454-455).
Qualifies(group) == Len(group) > 1 /\ Cardinality(UniquePaths(group)) > 1

\* os.path.basename(x['path']) in the sort key of line 451 raises TypeError
\* when a member's path is None; the size key of line 448 reads no path.
SortRaises(ctype, mode, group) ==
    /\ ~(mode = "loose" /\ ctype = "tvshows")
    /\ \E i \in 1..Len(group) : group[i].path = <<>>

\* The state of the loop of line 441 before the first bucket.
FilterStart == [lib_dup_list |-> <<>>, sorted |-> {}, raised |-> FALSE]

\* The loop of lines 436-458 from bucket k on.  A bucket with more than one
\* member (line 436) is sorted (lines 446-451), then tested for distinct paths
\* (lines 454-455) and appended (line 458).  acc.sorted notes the buckets whose
\* sort has run; acc.raised is set when a sort raises, which ends the loop.
RECURSIVE LibDupList(_, _, _, _, _)
LibDupList(ctype, mode, buckets, k, acc) ==
    IF acc.raised \/ k > Len(buckets) THEN acc
    ELSE LET group == buckets[k].files
         IN  IF Len(group) <= 1
             THEN LibDupList(ctype, mode, buckets, k + 1, acc)
             ELSE IF SortRaises(ctype, mode, group)
             THEN [acc EXCEPT !.raised = TRUE]
             ELSE LibDupList(ctype, mode, buckets, k + 1,
                      [acc EXCEPT
                          !.sorted = @ \cup {k},
                          !.lib_dup_list =
                              IF Qualifies(group)
                              THEN Append(@, [group_key |-> buckets[k].key,
                                              files |-> SortedGroup(ctype, mode, group)])
                              ELSE @])

(***************************************************************************)
(* manual_select_wizard: planning (lines 529-570).                         *)
(***************************************************************************)
Range(seq) == {seq[i] : i \in 1..Len(seq)}

\* Variant of IsSafe: the loop stops after the first candidate.
IsSafeFirstOnly(keep_file, del_files) ==
    del_files = <<>> \/ del_files[1].id # keep_file.id

\* Variant of IsSafe: the candidates are held against the kept file's name.
IsSafeByName(keep_file, del_files) ==
    \A i \in 1..Len(del_files) : del_files[i].name # keep_file.name

\* is_safe of the batch mode (lines 537-539).
IsSafe(keep_file, del_files) ==
    \A i \in 1..Len(del_files) : del_files[i].id # keep_file.id

\* Variant of BatchAdd: only the colliding candidates are held back.
RECURSIVE BatchAddOthers(_)
BatchAddOthers(files) ==
    IF Len(files) <= 1 THEN <<>>
    ELSE BatchAddOthers(SubSeq(files, 1, Len(files) - 1))
         \o (IF files[Len(files)].id # files[1].id THEN <<files[Len(files)]>> ELSE <<>>)

\* Variant of BatchAdd: a safe group forwards all its members, the first too.
BatchAddAll(files) ==
    IF IsSafe(files[1], Tail(files)) THEN files ELSE <<>>

\* What the batch mode adds for one group (lines 534-540).
BatchAdd(files) ==
    IF IsSafe(files[1], Tail(files)) THEN Tail(files) ELSE <<>>

\* selected_files (lines 559-562): the files at the typed numbers that are in
\* range, in the order typed, repeats kept.
RECURSIVE SelectedFiles(_, _)
SelectedFiles(files, typed) ==
    IF typed = <<>> THEN <<>>
    ELSE (IF 0 <= Head(typed) - 1 /\ Head(typed) - 1 < Len(files)
          THEN <<files[Head(typed)]>> ELSE <<>>)
         \o SelectedFiles(files, Tail(typed))

\* is_merged (lines 549-550).
IsMerged(files) == Cardinality({files[i].id : i \in 1..Len(files)}) = 1

\* The merged-entry block of lines 563-565.
Blocked(files, selected_files) ==
    IsMerged(files) /\ Len(selected_files) < Len(files)

\* Variant of RemIds: only the first member, the batch mode's keep, is held
\* against the file.
RemIdsKeepOnly(files, selected_files, f) ==
    IF files[1] \notin Range(selected_files) /\ files[1] # f
    THEN {files[1].id} ELSE {}

\* rem_ids (line 567).  `x not in selected_files` and `x != f` compare the
\* file dicts by value.
RemIds(files, selected_files, f) ==
    {files[i].id : i \in {j \in 1..Len(files) :
                             files[j] \notin Range(selected_files) /\ files[j] # f}}

\* The files of selected_files[k..] that pass line 568, in order.
RECURSIVE ManualAdd(_, _, _)
ManualAdd(files, selected_files, k) ==
    IF k > Len(selected_files) THEN <<>>
    ELSE (IF selected_files[k].id \in RemIds(files, selected_files, selected_files[k])
          THEN <<>> ELSE <<selected_files[k]>>)
         \o ManualAdd(files, selected_files, k + 1)

\* The lines printed for selected_files[k..] (lines 568-569).
RECURSIVE ManualPrints(_, _, _, _)
ManualPrints(g, files, selected_files, k) ==
    IF k > Len(selected_files) THEN <<>>
    ELSE <<[msg |-> IF selected_files[k].id
                         \in RemIds(files, selected_files, selected_files[k])
                    THEN "skip_id_conflict" ELSE "marked",
            group |-> g]>>
         \o ManualPrints(g, files, selected_files, k + 1)

\* What the operator can type at the prompt of line 556: up to MaxSel numbers,
\* each a member's number or one past the last.
RECURSIVE SeqsUpTo(_, _)
SeqsUpTo(S, n) == IF n = 0 THEN {<<>>} ELSE SeqsOfLen(S, n) \cup SeqsUpTo(S, n - 1)

Typings(files) == SeqsUpTo(1..(Len(files) + 1), MaxSel)

\* str.strip() on a line of char codes: the blanks at both ends go.
RECURSIVE strip(_)
strip(s) ==
    IF s = <<>> THEN s
    ELSE IF Head(s) = 32 THEN strip(Tail(s))
    ELSE IF s[Len(s)] = 32 THEN strip(SubSeq(s, 1, Len(s) - 1))
    ELSE s

\* What the operator may answer at line 576: "YES", " YES ", "yes", "Y", "".
YES == <<89, 69, 83>>
Answers == {YES, <<32>> \o YES \o <<32>>, <<121, 101, 115>>, <<89>>, <<>>}

\* Variant of Confirmed: any answer of three letters is taken for YES.
ConfirmedAnyThree(answer) == Len(strip(answer)) = 3

\* Line 576: the answer passes when, stripped, it is YES.
Confirmed(answer) == ~(strip(answer) # YES)

(***************************************************************************)
(* State.                                                                  *)
(***************************************************************************)
VARIABLES
    pc,                  \* where the program is
    ctype,               \* CollectionType of the library on the server
    items,               \* the library's catalog records on the server
    scan_mode,           \* self.scan_mode
    groups,              \* run_scanner's buckets, in insertion order
    placed,              \* history: the sources appended and their buckets
    sorted_buckets,      \* history: the buckets whose sort has run
    lib_file_count,      \* run_scanner's count of the library's files
    lib_total_bytes,     \* run_scanner's sum of the library's file sizes
    last_scan_results,   \* self.last_scan_results[lib], <<>> when lib is no key
    lib_types,           \* self.lib_types: <<>> or <<CollectionType of lib>>
    mode,                \* the wizard's mode: "a", "m" or "" before it is asked
    gi,                  \* the group the wizard's loop is at
    final_delete_tasks,  \* the wizard's delete list
    task_origin,         \* history: the group each delete task came from
    checked,             \* history: the groups whose ID check has been run
    out,                 \* the warnings and marks printed by the wizard
    requests,            \* the DELETE requests sent: [id, ok]
    success,             \* the wizard's success counter
    answers,             \* history: the answer at line 576 and login_user's result
    attempt,             \* _request's loop variable
    tries,               \* history: how the attempts of the running _request ended
    slept,               \* history: the sleeps of the running _request, in seconds
    result,              \* what _request returned, "pending" while it runs
    all_items,           \* _fetch_all_items' list
    start_index,         \* _fetch_all_items' start_index
    pages,               \* history: the page requests sent and what came back
    run,                 \* the number of the scan started from the main menu
    earlier_runs         \* history: what the finished runs found and planned

vars == <<pc, ctype, items, scan_mode, groups, placed, sorted_buckets, lib_file_count,
          lib_total_bytes, last_scan_results, lib_types, mode, gi, final_delete_tasks, task_origin, checked, out, requests,
          success, answers, attempt, tries, slept, result, all_items, start_index, pages,
          run, earlier_runs>>

server == <<ctype, items>>
scan == <<scan_mode, groups, placed, sorted_buckets, lib_file_count, lib_total_bytes,
          last_scan_results, lib_types>>
plan == <<mode, gi, final_delete_tasks, task_origin, checked, out>>
exec == <<requests, success, answers>>
http == <<attempt, tries, slept, result>>
listing == <<all_items, start_index, pages>>
loop == <<run, earlier_runs>>

CTypes == {"movies", "tvshows"}

Init ==
    /\ pc = "menu"
    /\ ctype \in CTypes
    /\ items \in Catalogs(WizardDomain(ctype), MaxFiles) \cup SizelessCatalogs(ctype)
    /\ scan_mode = "strict"
    /\ groups = <<>>
    /\ placed = <<>>
    /\ sorted_buckets = {}
    /\ lib_file_count = 0
    /\ lib_total_bytes = 0
    /\ last_scan_results = <<>>
    /\ lib_types = <<>>
    /\ mode = ""
    /\ gi = 0
    /\ final_delete_tasks = <<>>
    /\ task_origin = <<>>
    /\ checked = {}
    /\ out = <<>>
    /\ requests = <<>>
    /\ success = 0
    /\ answers = <<>>
    /\ attempt = 0
    /\ tries = <<>>
    /\ slept = <<>>
    /\ result = "pending"
    /\ all_items = <<>>
    /\ start_index = 0
    /\ pages = <<>>
    /\ run = 1
    /\ earlier_runs = {}

(***************************************************************************)
(* run_scanner.                                                            *)
(***************************************************************************)
\* Line 342.
ScanMode(st) == IF st = "2" THEN "loose" ELSE "strict"

\* Lines 341-345: the strategy is chosen, the library list cannot be fetched.
ScanNoLibraries ==
    /\ pc = "menu"
    /\ \E st \in {"1", "2"} : scan_mode' = ScanMode(st)
    /\ UNCHANGED <<pc, groups, placed, sorted_buckets, lib_file_count,
                   lib_total_bytes, last_scan_results, lib_types>>
    /\ UNCHANGED <<http, listing, loop, server, plan, exec>>

\* Variant of ScanLibrary: self.last_scan_results is not emptied at line 361.
ScanLibraryKeepsResults ==
    /\ pc = "menu"
    /\ \E st \in {"1", "2"} :
         LET scanned == ScanItems(ctype, ScanMode(st), items, 1, ScanStart)
         IN  /\ scan_mode' = ScanMode(st)
             /\ groups' = scanned.buckets
             /\ placed' = scanned.placed
             /\ lib_file_count' = scanned.lib_file_count
             /\ lib_total_bytes' = scanned.lib_total_bytes
             /\ pc' = IF scanned.raised THEN "crashed" ELSE "grouped"
    /\ sorted_buckets' = {}
    /\ UNCHANGED last_scan_results
    /\ lib_types' = <<ctype>>
    /\ UNCHANGED <<http, listing, loop, server, plan, exec>>

\* Lines 341-430: the strategy is chosen, the state of the last scan is
\* dropped and the library's records are bucketed.  An exception of line 409
\* leaves run_scanner and main_menu and ends the program at line 1978.
ScanLibrary ==
    /\ pc = "menu"
    /\ \E st \in {"1", "2"} :
         LET scanned == ScanItems(ctype, ScanMode(st), items, 1, ScanStart)
         IN  /\ scan_mode' = ScanMode(st)
             /\ groups' = scanned.buckets
             /\ placed' = scanned.placed
             /\ lib_file_count' = scanned.lib_file_count
             /\ lib_total_bytes' = scanned.lib_total_bytes
             /\ pc' = IF scanned.raised THEN "crashed" ELSE "grouped"
    /\ sorted_buckets' = {}
    /\ last_scan_results' = <<>>
    /\ lib_types' = <<ctype>>
    /\ UNCHANGED <<http, listing, loop, server, plan, exec>>

\* Lines 436-464 and 504-507: the buckets are filtered and ordered; a list
\* with a group in it is stored (lines 463-464) and the wizard starts when
\* self.last_scan_results holds anything (line 504).  An exception of line 451
\* ends the program before line 464 stores anything.
FilterAndSelect ==
    /\ pc = "grouped"
    /\ LET filtered == LibDupList(ctype, scan_mode, groups, 1, FilterStart)
       IN  /\ sorted_buckets' = filtered.sorted
           /\ last_scan_results' =
                  IF ~filtered.raised /\ filtered.lib_dup_list # <<>>
                  THEN filtered.lib_dup_list ELSE last_scan_results
           /\ pc' = IF filtered.raised THEN "crashed"
                     ELSE IF last_scan_results' # <<>> THEN "wizard" ELSE "done"
    /\ UNCHANGED <<scan_mode, groups, placed, lib_file_count, lib_total_bytes,
                   lib_types>>
    /\ UNCHANGED <<http, listing, loop, server, plan, exec>>

(***************************************************************************)
(* manual_select_wizard.                                                   *)
(***************************************************************************)
\* Lines 513-514: "0" or no number leaves the wizard.
WizardLeave ==
    /\ pc = "wizard"
    /\ pc' = "done"
    /\ UNCHANGED <<http, listing, loop, server, scan, plan, exec>>

\* Lines 513-515: a number past the last library; libs[int(choice)-1] raises
\* IndexError, which ends the program at line 1978.
WizardBadChoice ==
    /\ pc = "wizard"
    /\ pc' = "crashed"
    /\ UNCHANGED <<http, listing, loop, server, scan, plan, exec>>

\* Lines 513-529: the library and the mode are chosen.
WizardStart ==
    /\ pc = "wizard"
    /\ \E m \in {"a", "m"} :
         /\ mode' = m
         /\ pc' = IF m = "a" THEN "batch" ELSE "manual"
    /\ gi' = 1
    /\ final_delete_tasks' = <<>>
    /\ UNCHANGED <<task_origin, checked, out>>
    /\ UNCHANGED <<http, listing, loop, server, scan, exec>>

\* The loops of lines 533 and 543 end after the last group.
AfterGroup(p) == IF gi = Len(last_scan_results) THEN "confirm" ELSE p

\* Variant of BatchGroup: the candidates are forwarded without the ID check.
BatchGroupUnchecked ==
    /\ pc = "batch"
    /\ gi <= Len(last_scan_results)
    /\ LET add == Tail(last_scan_results[gi].files)
       IN  /\ final_delete_tasks' = final_delete_tasks \o add
           /\ task_origin' = task_origin \o [i \in 1..Len(add) |-> gi]
    /\ gi' = gi + 1
    /\ pc' = AfterGroup("batch")
    /\ UNCHANGED <<mode, checked, out>>
    /\ UNCHANGED <<http, listing, loop, server, scan, exec>>

\* Variant of BatchGroup: the candidates are forwarded whatever the ID check
\* says; a collision is only warned about.
BatchGroupForwardsAlways ==
    /\ pc = "batch"
    /\ gi <= Len(last_scan_results)
    /\ LET files == last_scan_results[gi].files
           add == Tail(files)
       IN  /\ final_delete_tasks' = final_delete_tasks \o add
           /\ task_origin' = task_origin \o [i \in 1..Len(add) |-> gi]
           /\ checked' = checked \cup {gi}
           /\ out' = IF IsSafe(files[1], Tail(files)) THEN out
                     ELSE Append(out, [msg |-> "skip_id_conflict_group", group |-> gi])
    /\ gi' = gi + 1
    /\ pc' = AfterGroup("batch")
    /\ UNCHANGED mode
    /\ UNCHANGED <<http, listing, loop, server, scan, exec>>

\* Lines 533-541: one group of the batch mode.
BatchGroup ==
    /\ pc = "batch"
    /\ gi <= Len(last_scan_results)
    /\ LET files == last_scan_results[gi].files
           add == BatchAdd(files)
       IN  /\ final_delete_tasks' = final_delete_tasks \o add
           /\ task_origin' = task_origin \o [i \in 1..Len(add) |-> gi]
           /\ checked' = checked \cup {gi}
           /\ out' = IF IsSafe(files[1], Tail(files)) THEN out
                     ELSE Append(out, [msg |-> "skip_id_conflict_group", group |-> gi])
    /\ gi' = gi + 1
    /\ pc' = AfterGroup("batch")
    /\ UNCHANGED mode
    /\ UNCHANGED <<http, listing, loop, server, scan, exec>>

\* Lines 543-570: one group of the manual mode; typed is what the operator
\* answers to the prompt of line 556.
ManualGroup ==
    /\ pc = "manual"
    /\ gi <= Len(last_scan_results)
    /\ LET files == last_scan_results[gi].files
           warn == IF IsMerged(files)
                   THEN <<[msg |-> "warn_merged", group |-> gi]>> ELSE <<>>
       IN  \E typed \in Typings(files) :
             LET selected_files == SelectedFiles(files, typed)
                 add == ManualAdd(files, selected_files, 1)
             IN  IF typed = <<>>
                 THEN /\ out' = out \o warn
                      /\ UNCHANGED <<final_delete_tasks, task_origin, checked>>
                 ELSE IF Blocked(files, selected_files)
                 THEN /\ out' = out \o warn
                                 \o <<[msg |-> "blocked_merged", group |-> gi]>>
                      /\ checked' = checked \cup {gi}
                      /\ UNCHANGED <<final_delete_tasks, task_origin>>
                 ELSE /\ out' = out \o warn
                                 \o ManualPrints(gi, files, selected_files, 1)
                      /\ final_delete_tasks' = final_delete_tasks \o add
                      /\ task_origin' = task_origin \o [i \in 1..Len(add) |-> gi]
                      /\ checked' = checked \cup {gi}
    /\ gi' = gi + 1
    /\ pc' = AfterGroup("manual")
    /\ UNCHANGED mode
    /\ UNCHANGED <<http, listing, loop, server, scan, exec>>

\* Lines 572-573: nothing was selected.
ConfirmNothing ==
    /\ pc = "confirm"
    /\ final_delete_tasks = <<>>
    /\ pc' = "done"
    /\ UNCHANGED <<http, listing, loop, server, scan, plan, exec>>

\* Lines 575-576: the operator is asked to type YES.
Confirm ==
    /\ pc = "confirm"
    /\ final_delete_tasks # <<>>
    /\ \E answer \in Answers :
         /\ pc' = IF Confirmed(answer) THEN "login" ELSE "done"
         /\ answers' = Append(answers, [at |-> "confirm", typed |-> answer, ok |-> TRUE])
    /\ UNCHANGED <<requests, success>>
    /\ UNCHANGED <<http, listing, loop, server, scan, plan>>

\* Line 578: login_user returns True or False.
Login ==
    /\ pc = "login"
    /\ \E ok \in BOOLEAN :
         /\ pc' = IF ok THEN "delete" ELSE "done"
         /\ answers' = Append(answers, [at |-> "login", typed |-> <<>>, ok |-> ok])
    /\ UNCHANGED <<requests, success>>
    /\ UNCHANGED <<http, listing, loop, server, scan, plan>>

\* Lines 585-589: the next task's DELETE request; answered is whether _request
\* returned a response.
DeleteNext ==
    /\ pc = "delete"
    /\ Len(requests) < Len(final_delete_tasks)
    /\ \E answered \in BOOLEAN :
         /\ requests' = Append(requests,
                [id |-> final_delete_tasks[Len(requests) + 1].id, ok |-> answered])
         /\ success' = IF answered THEN success + 1 ELSE success
    /\ UNCHANGED answers
    /\ pc' = IF Len(requests) + 1 = Len(final_delete_tasks) THEN "done" ELSE "delete"
    /\ UNCHANGED <<http, listing, loop, server, scan, plan>>

Next ==
    \/ ScanNoLibraries
    \/ ScanLibrary
    \/ FilterAndSelect
    \/ WizardLeave
    \/ WizardBadChoice
    \/ WizardStart
    \/ BatchGroup
    \/ ManualGroup
    \/ ConfirmNothing
    \/ Confirm
    \/ Login
    \/ DeleteNext

Spec == Init /\ [][Next]_vars

(***************************************************************************)
(* The scan alone, over a wider set of catalogs.                           *)
(***************************************************************************)
ScanInit ==
    /\ pc = "menu"
    /\ ctype \in CTypes
    /\ items \in ScanCatalogs(ctype)
    /\ scan_mode = "strict"
    /\ groups = <<>>
    /\ placed = <<>>
    /\ sorted_buckets = {}
    /\ lib_file_count = 0
    /\ lib_total_bytes = 0
    /\ last_scan_results = <<>>
    /\ lib_types = <<>>
    /\ mode = ""
    /\ gi = 0
    /\ final_delete_tasks = <<>>
    /\ task_origin = <<>>
    /\ checked = {}
    /\ out = <<>>
    /\ requests = <<>>
    /\ success = 0
    /\ answers = <<>>
    /\ attempt = 0
    /\ tries = <<>>
    /\ slept = <<>>
    /\ result = "pending"
    /\ all_items = <<>>
    /\ start_index = 0
    /\ pages = <<>>
    /\ run = 1
    /\ earlier_runs = {}

ScanNext ==
    \/ ScanNoLibraries
    \/ ScanLibrary
    \/ FilterAndSelect

ScanSpec == ScanInit /\ [][ScanNext]_vars

(***************************************************************************)
(* The scan of catalogs with null fields.                                  *)
(***************************************************************************)
MalformedInit ==
    /\ pc = "menu"
    /\ ctype \in CTypes
    /\ items \in MalformedCatalogs(ctype)
    /\ scan_mode = "strict"
    /\ groups = <<>>
    /\ placed = <<>>
    /\ sorted_buckets = {}
    /\ lib_file_count = 0
    /\ lib_total_bytes = 0
    /\ last_scan_results = <<>>
    /\ lib_types = <<>>
    /\ mode = ""
    /\ gi = 0
    /\ final_delete_tasks = <<>>
    /\ task_origin = <<>>
    /\ checked = {}
    /\ out = <<>>
    /\ requests = <<>>
    /\ success = 0
    /\ answers = <<>>
    /\ attempt = 0
    /\ tries = <<>>
    /\ slept = <<>>
    /\ result = "pending"
    /\ all_items = <<>>
    /\ start_index = 0
    /\ pages = <<>>
    /\ run = 1
    /\ earlier_runs = {}

MalformedSpec == MalformedInit /\ [][ScanNext]_vars

(***************************************************************************)
(* The whole program over catalogs that make two groups.                   *)
(***************************************************************************)
PlanInit ==
    /\ pc = "menu"
    /\ ctype \in CTypes
    /\ items \in CrossCatalogs(ctype)
    /\ scan_mode = "strict"
    /\ groups = <<>>
    /\ placed = <<>>
    /\ sorted_buckets = {}
    /\ lib_file_count = 0
    /\ lib_total_bytes = 0
    /\ last_scan_results = <<>>
    /\ lib_types = <<>>
    /\ mode = ""
    /\ gi = 0
    /\ final_delete_tasks = <<>>
    /\ task_origin = <<>>
    /\ checked = {}
    /\ out = <<>>
    /\ requests = <<>>
    /\ success = 0
    /\ answers = <<>>
    /\ attempt = 0
    /\ tries = <<>>
    /\ slept = <<>>
    /\ result = "pending"
    /\ all_items = <<>>
    /\ start_index = 0
    /\ pages = <<>>
    /\ run = 1
    /\ earlier_runs = {}

PlanSpec == PlanInit /\ [][Next]_vars

(***************************************************************************)
(* The whole program over catalogs with titles and video streams.          *)
(***************************************************************************)
InfoInit ==
    /\ pc = "menu"
    /\ ctype \in CTypes
    /\ items \in InfoCatalogs(ctype)
    /\ scan_mode = "strict"
    /\ groups = <<>>
    /\ placed = <<>>
    /\ sorted_buckets = {}
    /\ lib_file_count = 0
    /\ lib_total_bytes = 0
    /\ last_scan_results = <<>>
    /\ lib_types = <<>>
    /\ mode = ""
    /\ gi = 0
    /\ final_delete_tasks = <<>>
    /\ task_origin = <<>>
    /\ checked = {}
    /\ out = <<>>
    /\ requests = <<>>
    /\ success = 0
    /\ answers = <<>>
    /\ attempt = 0
    /\ tries = <<>>
    /\ slept = <<>>
    /\ result = "pending"
    /\ all_items = <<>>
    /\ start_index = 0
    /\ pages = <<>>
    /\ run = 1
    /\ earlier_runs = {}

InfoSpec == InfoInit /\ [][Next]_vars

(***************************************************************************)
(* The scan started again from the main menu.                              *)
(***************************************************************************)
\* What a finished run found and planned.
RunResult ==
    [items |-> items, scan_mode |-> scan_mode, groups |-> last_scan_results,
     tasks |-> final_delete_tasks, out |-> out]

\* A finished run that the batch mode has planned, or that found no group and
\* so planned nothing.
Planned ==
    /\ pc = "done"
    /\ mode = "a" \/ (mode = "" /\ last_scan_results = <<>>)

\* The catalog after the DELETE requests that were answered.
RECURSIVE Remaining(_)
Remaining(its) ==
    IF its = <<>> THEN <<>>
    ELSE (IF \E i \in 1..Len(requests) : requests[i].ok /\ requests[i].id = Head(its).Id
          THEN <<>> ELSE <<Head(its)>>)
         \o Remaining(Tail(its))

\* Lines 1824-1837: run_scanner has returned to main_menu and "1" is chosen
\* again.  The locals of run_scanner and of the wizard are gone; scan_mode,
\* last_scan_results and lib_types stay on the object; the next scan fetches
\* the catalog without the items deleted.
MainMenu ==
    /\ pc = "done"
    /\ run < MaxRuns
    /\ run' = run + 1
    /\ earlier_runs' = IF Planned THEN earlier_runs \cup {RunResult} ELSE earlier_runs
    /\ pc' = "menu"
    /\ items' = Remaining(items)
    /\ groups' = <<>>
    /\ placed' = <<>>
    /\ sorted_buckets' = {}
    /\ lib_file_count' = 0
    /\ lib_total_bytes' = 0
    /\ mode' = ""
    /\ gi' = 0
    /\ final_delete_tasks' = <<>>
    /\ task_origin' = <<>>
    /\ checked' = {}
    /\ out' = <<>>
    /\ requests' = <<>>
    /\ success' = 0
    /\ answers' = <<>>
    /\ UNCHANGED <<ctype, scan_mode, last_scan_results, lib_types>>
    /\ UNCHANGED <<http, listing>>

RerunInit ==
    /\ pc = "menu"
    /\ ctype \in CTypes
    /\ items \in RerunCatalogs(ctype)
    /\ scan_mode = "strict"
    /\ groups = <<>>
    /\ placed = <<>>
    /\ sorted_buckets = {}
    /\ lib_file_count = 0
    /\ lib_total_bytes = 0
    /\ last_scan_results = <<>>
    /\ lib_types = <<>>
    /\ mode = ""
    /\ gi = 0
    /\ final_delete_tasks = <<>>
    /\ task_origin = <<>>
    /\ checked = {}
    /\ out = <<>>
    /\ requests = <<>>
    /\ success = 0
    /\ answers = <<>>
    /\ attempt = 0
    /\ tries = <<>>
    /\ slept = <<>>
    /\ result = "pending"
    /\ all_items = <<>>
    /\ start_index = 0
    /\ pages = <<>>
    /\ run = 1
    /\ earlier_runs = {}

RerunNext ==
    \/ Next
    \/ MainMenu

RerunSpec == RerunInit /\ [][RerunNext]_vars

(***************************************************************************)
(* _request attempt by attempt, under the deletion loop.                   *)
(***************************************************************************)
\* Line 133.
max_retries == 3

\* How one urlopen of lines 136-138 can end: status 204; a JSON body; the
\* JSON body null; a body that json.loads rejects; URLError; its subclass
\* HTTPError; TimeoutError; any other exception (a reset connection).
Outcomes ==
    {"204", "json", "null", "badjson", "URLError", "HTTPError", "TimeoutError", "other"}

\* Variant of Retried: every exception is answered as URLError is.
RetriedAlways(o) == o \notin {"204", "json", "null"}

\* Line 139: the exceptions of the first except clause.
Retried(o) == o \in {"URLError", "HTTPError", "TimeoutError"}

\* Lines 137-138: what is returned when urlopen gave a response; lines 147-148
\* when json.loads raised.
Response(o) ==
    IF o = "204" THEN "{}" ELSE IF o = "json" THEN "body" ELSE "None"

\* Line 141.
Backoff(a) == 2 * (a + 1)

\* Lines 121-134: _request is called for the next delete task (line 587).
RequestStart ==
    /\ pc = "delete"
    /\ Len(requests) < Len(final_delete_tasks)
    /\ pc' = "attempt"
    /\ attempt' = 0
    /\ tries' = <<>>
    /\ slept' = <<>>
    /\ result' = "pending"
    /\ UNCHANGED <<listing, loop, server, scan, plan, exec>>

\* Lines 134-148: one pass of the retry loop.
RequestAttempt ==
    /\ pc = "attempt"
    /\ \E o \in Outcomes :
         /\ tries' = Append(tries, o)
         /\ IF Retried(o) /\ attempt < max_retries - 1
            THEN /\ slept' = Append(slept, Backoff(attempt))
                 /\ attempt' = attempt + 1
                 /\ UNCHANGED <<pc, result>>
            ELSE /\ result' = IF Retried(o) THEN "None" ELSE Response(o)
                 /\ pc' = "returned"
                 /\ UNCHANGED <<attempt, slept>>
    /\ UNCHANGED <<listing, loop, server, scan, plan, exec>>

\* Variant of Succeeded: the response is tested for truth, not for None.
SucceededTruthy(r) == r \notin {"None", "{}"}

\* Line 587: `is not None`.
Succeeded(r) == r # "None"

\* Lines 587-589: the task's DELETE has returned; the loop goes on or ends.
DeleteResult ==
    /\ pc = "returned"
    /\ requests' = Append(requests,
           [id |-> final_delete_tasks[Len(requests) + 1].id, ok |-> result # "None"])
    /\ success' = IF Succeeded(result) THEN success + 1 ELSE success
    /\ pc' = IF Len(requests) + 1 = Len(final_delete_tasks) THEN "done" ELSE "delete"
    /\ attempt' = 0
    /\ tries' = <<>>
    /\ slept' = <<>>
    /\ result' = "pending"
    /\ UNCHANGED answers
    /\ UNCHANGED <<listing, loop, server, scan, plan>>

RequestInit ==
    /\ pc = "menu"
    /\ ctype \in CTypes
    /\ items \in RequestCatalogs(ctype)
    /\ scan_mode = "strict"
    /\ groups = <<>>
    /\ placed = <<>>
    /\ sorted_buckets = {}
    /\ lib_file_count = 0
    /\ lib_total_bytes = 0
    /\ last_scan_results = <<>>
    /\ lib_types = <<>>
    /\ mode = ""
    /\ gi = 0
    /\ final_delete_tasks = <<>>
    /\ task_origin = <<>>
    /\ checked = {}
    /\ out = <<>>
    /\ requests = <<>>
    /\ success = 0
    /\ answers = <<>>
    /\ attempt = 0
    /\ tries = <<>>
    /\ slept = <<>>
    /\ result = "pending"
    /\ all_items = <<>>
    /\ start_index = 0
    /\ pages = <<>>
    /\ run = 1
    /\ earlier_runs = {}

RequestNext ==
    \/ ScanNoLibraries
    \/ ScanLibrary
    \/ FilterAndSelect
    \/ WizardLeave
    \/ WizardBadChoice
    \/ WizardStart
    \/ BatchGroup
    \/ ManualGroup
    \/ ConfirmNothing
    \/ Confirm
    \/ Login
    \/ RequestStart
    \/ RequestAttempt
    \/ DeleteResult

RequestSpec == RequestInit /\ [][RequestNext]_vars

(***************************************************************************)
(* _fetch_all_items page by page, under run_scanner.                       *)
(***************************************************************************)
\* What the server answers to a page request over an unchanging catalog: the
\* records from StartIndex on, Limit of them at most.
Page(its, start, limit) ==
    SubSeq(its, start + 1, IF start + limit < Len(its) THEN start + limit ELSE Len(its))

\* Variant of NextStart: the index moves on by one record.
NextStartByOne(start, page) == start + 1

\* Line 163.
NextStart(start, page) == start + Len(page)

\* Lines 341-382 and 151-152: the strategy is chosen, the library list is
\* fetched, the state of the last scan is dropped and _fetch_all_items starts.
FetchStart ==
    /\ pc = "menu"
    /\ \E st \in {"1", "2"} : scan_mode' = ScanMode(st)
    /\ last_scan_results' = <<>>
    /\ lib_types' = <<ctype>>
    /\ all_items' = <<>>
    /\ start_index' = 0
    /\ pages' = <<>>
    /\ pc' = "fetching"
    /\ UNCHANGED <<groups, placed, sorted_buckets, lib_file_count, lib_total_bytes>>
    /\ UNCHANGED <<http, loop, server, plan, exec>>

\* Variant of FetchPage: a page request that fails ends the scan of the
\* library with nothing listed.
FetchPageAllOrNothing ==
    /\ pc = "fetching"
    /\ \E answered \in BOOLEAN :
         LET data == IF answered THEN Page(items, start_index, limit_per_page) ELSE <<>>
         IN  /\ pages' = Append(pages, [StartIndex |-> start_index,
                                        Limit |-> limit_per_page,
                                        have |-> Len(all_items),
                                        got |-> IF answered THEN Len(data) ELSE Null])
             /\ all_items' = IF answered THEN all_items \o data ELSE <<>>
             /\ IF answered /\ Len(data) = limit_per_page
                THEN start_index' = NextStart(start_index, data) /\ UNCHANGED pc
                ELSE pc' = "fetched" /\ UNCHANGED start_index
    /\ UNCHANGED <<http, loop, server, scan, plan, exec>>

\* Lines 153-163: one pass of the paging loop; answered is whether _request
\* returned a response.  No response (None) and an empty page leave the loop
\* at line 160, a page shorter than the limit at line 162.
FetchPage ==
    /\ pc = "fetching"
    /\ \E answered \in BOOLEAN :
         LET data == IF answered THEN Page(items, start_index, limit_per_page) ELSE <<>>
         IN  /\ pages' = Append(pages, [StartIndex |-> start_index,
                                        Limit |-> limit_per_page,
                                        have |-> Len(all_items),
                                        got |-> IF answered THEN Len(data) ELSE Null])
             /\ all_items' = all_items \o data
             /\ IF answered /\ Len(data) = limit_per_page
                THEN start_index' = NextStart(start_index, data) /\ UNCHANGED pc
                ELSE pc' = "fetched" /\ UNCHANGED start_index
    /\ UNCHANGED <<http, loop, server, scan, plan, exec>>

\* Lines 383-430: the records that _fetch_all_items returned are bucketed.
ScanFetched ==
    /\ pc = "fetched"
    /\ LET scanned == ScanItems(ctype, scan_mode, all_items, 1, ScanStart)
       IN  /\ groups' = scanned.buckets
           /\ placed' = scanned.placed
           /\ lib_file_count' = scanned.lib_file_count
           /\ lib_total_bytes' = scanned.lib_total_bytes
           /\ pc' = IF scanned.raised THEN "crashed" ELSE "grouped"
    /\ sorted_buckets' = {}
    /\ UNCHANGED <<scan_mode, last_scan_results, lib_types>>
    /\ UNCHANGED <<http, listing, loop, server, plan, exec>>

FetchInit ==
    /\ pc = "menu"
    /\ ctype \in CTypes
    /\ items \in RequestCatalogs(ctype)
    /\ scan_mode = "strict"
    /\ groups = <<>>
    /\ placed = <<>>
    /\ sorted_buckets = {}
    /\ lib_file_count = 0
    /\ lib_total_bytes = 0
    /\ last_scan_results = <<>>
    /\ lib_types = <<>>
    /\ mode = ""
    /\ gi = 0
    /\ final_delete_tasks = <<>>
    /\ task_origin = <<>>
    /\ checked = {}
    /\ out = <<>>
    /\ requests = <<>>
    /\ success = 0
    /\ answers = <<>>
    /\ attempt = 0
    /\ tries = <<>>
    /\ slept = <<>>
    /\ result = "pending"
    /\ all_items = <<>>
    /\ start_index = 0
    /\ pages = <<>>
    /\ run = 1
    /\ earlier_runs = {}

\* The paging alone, with the loop of line 153 running on while it can.
PagingNext ==
    \/ FetchStart
    \/ FetchPage

PagingSpec == FetchInit /\ [][PagingNext]_vars /\ WF_vars(FetchPage)

\* The program with the listing fetched page by page.
FetchNext ==
    \/ ScanNoLibraries
    \/ FetchStart
    \/ FetchPage
    \/ ScanFetched
    \/ FilterAndSelect
    \/ WizardLeave
    \/ WizardBadChoice
    \/ WizardStart
    \/ BatchGroup
    \/ ManualGroup
    \/ ConfirmNothing
    \/ Confirm
    \/ Login
    \/ DeleteNext

FetchSpec == FetchInit /\ [][FetchNext]_vars

(***************************************************************************)
(* Properties.                                                             *)
(***************************************************************************)
\* The delete tasks that came from group g, and the members of a group.
TasksFrom(g) ==
    {i \in 1..Len(final_delete_tasks) : task_origin[i] = g}
Files(g) == last_scan_results[g].files
Keep(g) == Files(g)[1]
Collides(g) == \E i \in 2..Len(Files(g)) : Files(g)[i].id = Keep(g).id
Printed(msg, g) == {i \in 1..Len(out) : out[i] = [msg |-> msg, group |-> g]}

\* C1: in batch auto mode no delete task has the id of the kept file files[0]
\* of the group it came from.
C1_SafeGroupSparesKeepId ==
    mode = "a" =>
        \A i \in 1..Len(final_delete_tasks) :
            final_delete_tasks[i].id # Keep(task_origin[i]).id

\* A batch run has forwarded both candidates of a three-member group.
C1_Witness ==
    /\ mode = "a"
    /\ \E g \in 1..Len(last_scan_results) :
         Len(Files(g)) = 3 /\ Cardinality(TasksFrom(g)) = 2

\* C2: in batch auto mode a group with a candidate that has the kept file's id
\* forwards no candidate at all and gets exactly one warning.
C2_UnsafeGroupDropped ==
    mode = "a" =>
        \A g \in 1..Len(last_scan_results) :
            (g < gi /\ Collides(g)) =>
                /\ TasksFrom(g) = {}
                /\ Cardinality(Printed("skip_id_conflict_group", g)) = 1

\* A batch run has passed a group in which one candidate has the kept file's
\* id and another has a different id.
C2_Witness ==
    /\ mode = "a"
    /\ \E g \in 1..Len(last_scan_results) :
         /\ g < gi
         /\ Collides(g)
         /\ \E i \in 2..Len(Files(g)) : Files(g)[i].id # Keep(g).id

\* C3: in both modes a delete task's id differs from the id of every member of
\* its group that is held back, that is, of every member that is not in the
\* delete list (`in` as the program has it: by the record's value).
C3_TaskIdDiffersFromHeldBack ==
    \A i \in 1..Len(final_delete_tasks) :
        LET g == task_origin[i]
            added == {final_delete_tasks[j] : j \in TasksFrom(g)}
        IN  \A k \in 1..Len(Files(g)) :
                Files(g)[k] \notin added => Files(g)[k].id # final_delete_tasks[i].id

\* In manual mode one selected member of a group was marked for deletion and
\* another was skipped for its id.
C3_Witness ==
    /\ mode = "m"
    /\ \E g \in 1..Len(last_scan_results) :
         TasksFrom(g) # {} /\ Printed("skip_id_conflict", g) # {}

\* C4: the ID check of a group runs when the group's order is fixed and before
\* any DELETE request is sent, and every DELETE request is for a task of a
\* group that went through the check, in batch and in manual mode.
C4_Checked ==
    /\ checked \subseteq 1..Len(last_scan_results)
    /\ Len(requests) <= Len(final_delete_tasks)
    /\ \A i \in 1..Len(requests) :
         /\ requests[i].id = final_delete_tasks[i].id
         /\ task_origin[i] \in checked

C4_Order ==
    /\ checked' # checked =>
         requests = <<>> /\ requests' = <<>> /\ last_scan_results' = last_scan_results
    /\ checked # {} => last_scan_results' = last_scan_results
    /\ requests' # requests =>
         checked' = checked /\ final_delete_tasks' = final_delete_tasks

C4_CheckBeforeDelete == [](C4_Checked) /\ [][C4_Order]_vars

\* A manual run has sent a DELETE request.
C4_Witness == mode = "m" /\ requests # <<>> /\ pc = "done"

(***************************************************************************)
(* Properties of the scan.                                                 *)
(***************************************************************************)
Scanned == pc # "menu"
Filtered == pc \notin {"menu", "grouped"}

\* The catalog record behind the p-th append of the scan.
ItemOf(p) == items[placed[p].item]
SourceOf(p) == ItemOf(p).MediaSources[placed[p].source]
SizeOf(p) == SourceOf(p).Size[1]
SeriesOf(p) == IF ItemOf(p).SeriesName = <<>> THEN "" ELSE ItemOf(p).SeriesName[1]
SeasonOf(p) == IF ItemOf(p).ParentIndexNumber = <<>> THEN -1 ELSE ItemOf(p).ParentIndexNumber[1]
EpisodeOf(p) == IF ItemOf(p).IndexNumber = <<>> THEN -1 ELSE ItemOf(p).IndexNumber[1]

\* The media sources of the catalog that have a size, as <<item, source>>.
SizedSources ==
    {<<i, j>> \in (1..Len(items)) \X (1..MaxFiles + 1) :
        /\ j <= Len(items[i].MediaSources)
        /\ items[i].MediaSources[j].Size \notin {<<>>, <<0>>}}

\* Every source with a size was appended once, and the buckets hold what was
\* appended to them.
AllPlaced ==
    /\ {<<placed[p].item, placed[p].source>> : p \in 1..Len(placed)} = SizedSources
    /\ Len(placed) = Cardinality(SizedSources)
    /\ \A p \in 1..Len(placed) :
         /\ placed[p].bucket \in 1..Len(groups)
         /\ \E n \in 1..Len(groups[placed[p].bucket].files) :
              LET f == groups[placed[p].bucket].files[n]
              IN  /\ f.id = ItemOf(p).Id
                  /\ f.media_source_id = SourceOf(p).Id
                  /\ f.path = SourceOf(p).Path
                  /\ f.size = SizeOf(p)

\* C5: after a scan every group of last_scan_results has more than one member
\* and more than one distinct path, and no bucket with a single member or a
\* single path is among the groups.
C5_GroupsAreDuplicates ==
    /\ \A g \in 1..Len(last_scan_results) :
         /\ Len(Files(g)) > 1
         /\ \E m, n \in 1..Len(Files(g)) : Files(g)[m].path # Files(g)[n].path
    /\ Filtered =>
         \A k \in 1..Len(groups) :
             (\/ Len(groups[k].files) <= 1
              \/ \A m, n \in 1..Len(groups[k].files) :
                     groups[k].files[m].path = groups[k].files[n].path)
             => \A g \in 1..Len(last_scan_results) :
                    last_scan_results[g].group_key # groups[k].key

\* A scan is over that found a bucket of several records of one path and
\* reported no group.
C5_Witness ==
    /\ Filtered
    /\ last_scan_results = <<>>
    /\ \E k \in 1..Len(groups) :
         /\ Len(groups[k].files) > 1
         /\ \A m, n \in 1..Len(groups[k].files) :
                groups[k].files[m].path = groups[k].files[n].path

\* C6: in a movies library two media sources with a size are put in the same
\* bucket exactly when their sizes are equal, in both scan modes.
C6_MovieBucketsBySize ==
    (Scanned /\ ctype = "movies") =>
        /\ AllPlaced
        /\ \A p, q \in 1..Len(placed) :
             (placed[p].bucket = placed[q].bucket) <=> (SizeOf(p) = SizeOf(q))

\* A loose-mode scan of a movies library put two sources of equal size and
\* different title, id and path in one bucket.
C6_Witness ==
    /\ Scanned /\ ctype = "movies" /\ scan_mode = "loose"
    /\ \E p, q \in 1..Len(placed) :
         /\ placed[p].bucket = placed[q].bucket
         /\ ItemOf(p).Name # ItemOf(q).Name
         /\ ItemOf(p).Id # ItemOf(q).Id
         /\ SourceOf(p).Path # SourceOf(q).Path

SameEpisode(p, q) ==
    /\ SeriesOf(p) = SeriesOf(q)
    /\ SeasonOf(p) = SeasonOf(q)
    /\ EpisodeOf(p) = EpisodeOf(q)

\* C7, as claimed: in a tvshows library two media sources are put in the same
\* bucket exactly when their series name, season, episode and size are equal.
C7_EpisodeBucketsBySize ==
    (Scanned /\ ctype = "tvshows") =>
        \A p, q \in 1..Len(placed) :
            (placed[p].bucket = placed[q].bucket)
                <=> (SameEpisode(p, q) /\ SizeOf(p) = SizeOf(q))

\* C7, amended: in a tvshows library two media sources are put in the same
\* bucket exactly when their series name, season and episode are equal and,
\* in strict mode, so are their sizes; the loose mode leaves the size out.
C7_EpisodeBucketsByMode ==
    (Scanned /\ ctype = "tvshows") =>
        /\ AllPlaced
        /\ \A p, q \in 1..Len(placed) :
             (placed[p].bucket = placed[q].bucket)
                 <=> (/\ SameEpisode(p, q)
                      /\ scan_mode = "strict" => SizeOf(p) = SizeOf(q))

\* A loose-mode scan of a tvshows library put two sources of different size in
\* one bucket.
C7_Witness ==
    /\ Scanned /\ ctype = "tvshows" /\ scan_mode = "loose"
    /\ \E p, q \in 1..Len(placed) :
         placed[p].bucket = placed[q].bucket /\ SizeOf(p) # SizeOf(q)

\* The bucket a group of last_scan_results was made from.
BucketOfGroup(g) ==
    CHOOSE k \in 1..Len(groups) : groups[k].key = last_scan_results[g].group_key

\* C8: in both scan modes two episode sources that differ in series name,
\* season or episode number are in different buckets, and every group of
\* last_scan_results is one bucket, so they are never members of one group.
C8_EpisodesApart ==
    (Scanned /\ ctype = "tvshows") =>
        /\ AllPlaced
        /\ \A p, q \in 1..Len(placed) :
             ~SameEpisode(p, q) => placed[p].bucket # placed[q].bucket
        /\ \A g \in 1..Len(last_scan_results) :
             /\ \E k \in 1..Len(groups) :
                  groups[k].key = last_scan_results[g].group_key
             /\ Len(Files(g)) = Len(groups[BucketOfGroup(g)].files)
             /\ Range(Files(g)) = Range(groups[BucketOfGroup(g)].files)

\* A scan of a tvshows library is over: two episodes of one series and season
\* with equal size and different paths went to different buckets, and no
\* group was reported.
C8_Witness ==
    /\ Filtered /\ ctype = "tvshows"
    /\ last_scan_results = <<>>
    /\ \E p, q \in 1..Len(placed) :
         /\ SeriesOf(p) = SeriesOf(q) /\ SeasonOf(p) = SeasonOf(q)
         /\ EpisodeOf(p) # EpisodeOf(q)
         /\ EpisodeOf(p) # -1 /\ EpisodeOf(q) # -1
         /\ SizeOf(p) = SizeOf(q)
         /\ SourceOf(p).Path # SourceOf(q).Path
         /\ placed[p].bucket # placed[q].bucket

\* The groups ordered by file name: all but the loose-mode episode groups.
ByFileName == ~(scan_mode = "loose" /\ ctype = "tvshows")

\* C9: a group ordered by the file name policy is sorted by the length of the
\* base name, longest first, and members of equal length by base name
\* ascending.
C9_LongestThenLexicographic ==
    (Filtered /\ ByFileName) =>
        \A g \in 1..Len(last_scan_results) :
            \A m, n \in 1..Len(Files(g)) :
                m < n =>
                    LET bm == basename(Files(g)[m].path)
                        bn == basename(Files(g)[n].path)
                    IN  \/ Len(bm) > Len(bn)
                        \/ Len(bm) = Len(bn) /\ ~StrLess(bn, bm)

\* The orders in which the catalog can return the members of a group.
Reorderings(files) ==
    {[i \in 1..Len(files) |-> files[f[i]]] : f \in Permutations(1..Len(files))}

\* C10: the kept file of a group is the same for every order in which the
\* catalog returns the group's members.
C10_KeepIgnoresCatalogOrder ==
    Filtered =>
        \A g \in 1..Len(last_scan_results) :
            \A other \in Reorderings(Files(g)) :
                SortedGroup(ctype, scan_mode, other)[1] = Files(g)[1]

(***************************************************************************)
(* Properties of records without size, of malformed records and of the     *)
(* episode numbers.                                                        *)
(***************************************************************************)
RECURSIVE SumOfSizes(_)
SumOfSizes(S) ==
    IF S = {} THEN 0
    ELSE LET x == CHOOSE y \in S : TRUE
         IN  items[x[1]].MediaSources[x[2]].Size[1] + SumOfSizes(S \ {x})

RECURSIVE MembersIn(_, _)
MembersIn(buckets, k) ==
    IF k > Len(buckets) THEN 0
    ELSE Len(buckets[k].files) + MembersIn(buckets, k + 1)

\* C11: a media source whose Size is missing or zero is appended to no bucket
\* and is not counted in the library's file count or total bytes: the appends
\* are exactly the sources with a size, the buckets hold nothing else, and no
\* member of a bucket, of a group or of the delete list has size zero.
C11_SizelessNeverPlaced ==
    Scanned =>
        /\ AllPlaced
        /\ MembersIn(groups, 1) = Len(placed)
        /\ lib_file_count = Cardinality(SizedSources)
        /\ lib_total_bytes = SumOfSizes(SizedSources)
        /\ \A k \in 1..Len(groups) :
             \A n \in 1..Len(groups[k].files) : groups[k].files[n].size > 0
        /\ \A g \in 1..Len(last_scan_results) :
             /\ \E k \in 1..Len(groups) :
                  Range(Files(g)) = Range(groups[k].files)
             /\ \A n \in 1..Len(Files(g)) : Files(g)[n].size > 0
        /\ \A i \in 1..Len(final_delete_tasks) :
             /\ final_delete_tasks[i] \in Range(Files(task_origin[i]))
             /\ final_delete_tasks[i].size > 0

\* A batch run has sent its DELETE requests for a library that holds a source
\* without Size and a source of Size zero, at different paths.
C11_Witness ==
    /\ mode = "a" /\ pc = "done" /\ requests # <<>>
    /\ \E i, j \in 1..Len(items) :
         /\ items[i].MediaSources # <<>> /\ items[j].MediaSources # <<>>
         /\ items[i].MediaSources[1].Size = <<>>
         /\ items[j].MediaSources[1].Size = <<0>>
         /\ items[i].MediaSources[1].Path # items[j].MediaSources[1].Path

\* C12: no catalog record makes the scan raise; run_scanner always gets to the
\* end of the library loop.
C12_ScanNeverRaises == pc # "crashed"

Unnumbered(p) == SeasonOf(p) = -1 \/ EpisodeOf(p) = -1

\* C13: an episode source whose season or episode number is missing is in no
\* bucket, and so in no group, with an episode source whose season and episode
\* number are both known, whatever their series names and sizes.
C13_UnnumberedApart ==
    (Scanned /\ ctype = "tvshows") =>
        /\ AllPlaced
        /\ \A p, q \in 1..Len(placed) :
             (Unnumbered(p) /\ ~Unnumbered(q)) => placed[p].bucket # placed[q].bucket
        /\ \A g \in 1..Len(last_scan_results) :
             \A p, q \in 1..Len(placed) :
                 (/\ groups[placed[p].bucket].key = last_scan_results[g].group_key
                  /\ groups[placed[q].bucket].key = last_scan_results[g].group_key)
                 => (Unnumbered(p) <=> Unnumbered(q))

\* A scan of a tvshows library is over: an episode without season number and
\* the episode of season 1 with the same series, episode number and size and
\* another path went to different buckets, and no group was reported.
C13_Witness ==
    /\ Filtered /\ ctype = "tvshows"
    /\ last_scan_results = <<>>
    /\ \E p, q \in 1..Len(placed) :
         /\ SeasonOf(p) = -1 /\ SeasonOf(q) = 1
         /\ EpisodeOf(p) = EpisodeOf(q) /\ EpisodeOf(p) # -1
         /\ SeriesOf(p) = SeriesOf(q)
         /\ SizeOf(p) = SizeOf(q)
         /\ SourceOf(p).Path # SourceOf(q).Path
         /\ placed[p].bucket # placed[q].bucket

(***************************************************************************)
(* Properties of the stages a bucket goes through.                         *)
(***************************************************************************)
Stored(k) ==
    \E g \in 1..Len(last_scan_results) : last_scan_results[g].group_key = groups[k].key
GroupOfBucket(k) ==
    CHOOSE g \in 1..Len(last_scan_results) :
        last_scan_results[g].group_key = groups[k].key

\* The terminal states of a group of the batch mode.
Safe(g) ==
    /\ Printed("skip_id_conflict_group", g) = {}
    /\ Cardinality(TasksFrom(g)) = Len(Files(g)) - 1
    /\ \A n \in 2..Len(Files(g)) : \E i \in TasksFrom(g) : final_delete_tasks[i] = Files(g)[n]
Unsafe(g) ==
    /\ Cardinality(Printed("skip_id_conflict_group", g)) = 1
    /\ TasksFrom(g) = {}

\* How far bucket k has come: 1 grouped, 2 sorted, 3 stored as a group with
\* its keep first, 4 judged by the batch mode.
Rank(k) ==
    IF Stored(k)
    THEN (IF mode = "a" /\ GroupOfBucket(k) \in checked THEN 4 ELSE 3)
    ELSE IF k \in sorted_buckets THEN 2 ELSE 1

\* What holds of the stages in every state, the order of sort and filter
\* left open.
StagesInOrder ==
    /\ pc \in {"menu", "grouped"} =>
         sorted_buckets = {} /\ last_scan_results = <<>> /\ checked = {}
    /\ \A k \in 1..Len(groups) :
         Stored(k) => k \in sorted_buckets /\ Qualifies(groups[k].files)
    /\ \A g, h \in 1..Len(last_scan_results) :
         g < h => BucketOfGroup(g) < BucketOfGroup(h)
    /\ mode = "a" =>
         \A g \in 1..Len(last_scan_results) :
             IF g < gi
             THEN /\ g \in checked
                  /\ Safe(g) # Unsafe(g)
                  /\ Safe(g) <=> ~Collides(g)
             ELSE /\ g \notin checked
                  /\ TasksFrom(g) = {}
                  /\ Printed("skip_id_conflict_group", g) = {}

\* No bucket moves back, and a judged group keeps its verdict and its tasks.
NoWayBack ==
    \A k \in 1..Len(groups) :
        groups' = groups =>
            /\ Rank(k)' >= Rank(k)
            /\ Rank(k) = 4 =>
                 /\ Safe(GroupOfBucket(k))' = Safe(GroupOfBucket(k))
                 /\ Unsafe(GroupOfBucket(k))' = Unsafe(GroupOfBucket(k))

C15_RerunPlansTheSame ==
    Planned =>
        \A r \in earlier_runs :
            (r.items = items /\ r.scan_mode = scan_mode) =>
                /\ r.groups = last_scan_results
                /\ r.tasks = final_delete_tasks
                /\ r.out = out

\* The third run, strict, has planned in batch mode what the first run
\* planned, with a loose run in between.
C15_Witness ==
    /\ Planned /\ mode = "a" /\ run = 3 /\ scan_mode = "strict"
    /\ final_delete_tasks # <<>>
    /\ \E r \in earlier_runs :
         r.items = items /\ r.scan_mode = "strict" /\ r.tasks = final_delete_tasks
    /\ \E r \in earlier_runs : r.scan_mode = "loose"

(***************************************************************************)
(* Properties of the display fields.                                       *)
(***************************************************************************)
\* The records that differ from a record in Name and in the video streams of
\* its sources only, and the catalogs made of them.
ItemVariants(it) ==
    {[it EXCEPT !.Name = <<nm>>,
                !.MediaSources =
                    [j \in 1..Len(it.MediaSources) |->
                        [it.MediaSources[j] EXCEPT !.MediaStreams = sts[j]]]] :
        nm \in {"n1", "n2"}, sts \in SeqsOfLen(Streams, Len(it.MediaSources))}

RECURSIVE CatalogVariants(_)
CatalogVariants(its) ==
    IF its = <<>> THEN {<<>>}
    ELSE {<<v>> \o rest : v \in ItemVariants(Head(its)),
                          rest \in CatalogVariants(Tail(its))}

\* What a scan of catalog its stores.
ScanOf(ct, m, its) ==
    LibDupList(ct, m, ScanItems(ct, m, its, 1, ScanStart).buckets, 1,
               FilterStart).lib_dup_list

\* The groups as the ids and paths of their members, keep first.
Members(lsr) ==
    [g \in 1..Len(lsr) |->
        [n \in 1..Len(lsr[g].files) |-> <<lsr[g].files[n].id, lsr[g].files[n].path>>]]

\* The delete list of the batch mode over the groups from g on, and the
\* groups it warns about.
RECURSIVE BatchPlan(_, _)
BatchPlan(lsr, g) ==
    IF g > Len(lsr) THEN <<>>
    ELSE BatchAdd(lsr[g].files) \o BatchPlan(lsr, g + 1)

Warned(lsr) ==
    {g \in 1..Len(lsr) : ~IsSafe(lsr[g].files[1], Tail(lsr[g].files))}

IdsAndPaths(tasks) == [i \in 1..Len(tasks) |-> <<tasks[i].id, tasks[i].path>>]

BatchPlanned == mode = "a" /\ pc \in {"confirm", "login", "delete", "done"}

\* C16: every catalog that differs from the scanned one in Name and video
\* streams only gives the groups that were stored, member by member by id and
\* path and with the same keep, and in batch mode the warnings and the delete
\* list that were made.
C16_DisplayFieldsDecideNothing ==
    Filtered =>
        \A other \in CatalogVariants(items) :
            LET found == ScanOf(ctype, scan_mode, other)
            IN  /\ Members(found) = Members(last_scan_results)
                /\ BatchPlanned =>
                     /\ IdsAndPaths(BatchPlan(found, 1)) = IdsAndPaths(final_delete_tasks)
                     /\ Warned(found)
                            = {g \in 1..Len(last_scan_results) :
                                  Printed("skip_id_conflict_group", g) # {}}

\* A batch run over a movies library has planned the deletion of a file whose
\* name and info differ from those of the file kept.
C16_Witness ==
    /\ BatchPlanned /\ ctype = "movies"
    /\ \E i \in 1..Len(final_delete_tasks) :
         /\ final_delete_tasks[i].name # Keep(task_origin[i]).name
         /\ final_delete_tasks[i].info # Keep(task_origin[i]).info

(***************************************************************************)
(* Properties of the kept file and of the delete list.                     *)
(***************************************************************************)
\* C17: in loose mode the kept file of every group of a tvshows library has
\* the largest size of the group and, among the members of that size, the
\* longest file name.
C17_KeepLargestThenLongest ==
    (Filtered /\ ctype = "tvshows" /\ scan_mode = "loose") =>
        \A g \in 1..Len(last_scan_results) :
            \A n \in 1..Len(Files(g)) :
                /\ Keep(g).size >= Files(g)[n].size
                /\ Files(g)[n].size = Keep(g).size =>
                     Len(basename(Keep(g).path)) >= Len(basename(Files(g)[n].path))

\* C18: when a scan in strict mode is over, all members of every group of
\* last_scan_results have the same size, in movies and in tvshows libraries,
\* whatever the scans before it stored.
C18_StrictGroupsOfOneSize ==
    (Filtered /\ scan_mode = "strict") =>
        \A g \in 1..Len(last_scan_results) :
            \A m, n \in 1..Len(Files(g)) : Files(g)[m].size = Files(g)[n].size

\* A strict scan of a tvshows library has stored a group; an earlier, loose
\* scan of the same catalog had stored a group of files of two sizes.
C18_Witness ==
    /\ pc = "wizard" /\ scan_mode = "strict" /\ ctype = "tvshows" /\ run > 1
    /\ last_scan_results # <<>>
    /\ \E r \in earlier_runs :
         /\ r.scan_mode = "loose" /\ r.items = items
         /\ \E g \in 1..Len(r.groups) :
              \E m, n \in 1..Len(r.groups[g].files) :
                  r.groups[g].files[m].size # r.groups[g].files[n].size

\* C19: in batch auto mode no delete task has the id of the kept file of any
\* group of the library, its own group or another.
C19_TasksSpareEveryKeep ==
    mode = "a" =>
        \A i \in 1..Len(final_delete_tasks) :
            \A g \in 1..Len(last_scan_results) :
                final_delete_tasks[i].id # Keep(g).id

\* C20: in batch auto mode no delete task has the path of the kept file of
\* the group it came from.
C20_TasksSpareKeepPath ==
    mode = "a" =>
        \A i \in 1..Len(final_delete_tasks) :
            final_delete_tasks[i].path # Keep(task_origin[i]).path

(***************************************************************************)
(* Properties of the finished delete list and of the requests.             *)
(***************************************************************************)
\* The wizard's loop over the groups has ended.
Built == mode # "" /\ pc \in {"confirm", "login", "delete", "done"}

\* The members of group g that are not in the delete list (`in` by the
\* record's value).
Spared(g) ==
    {n \in 1..Len(Files(g)) : Files(g)[n] \notin Range(final_delete_tasks)}

\* C21 as stated: when the delete list is built, every group of the library
\* has a member that is not in the list, in batch and in manual mode.
C21_EveryGroupKeepsAMember ==
    Built => \A g \in 1..Len(last_scan_results) : Spared(g) # {}

\* C21, amended: when the delete list is built, a group has no member outside
\* the list only in manual mode and only when the marks the operator set in
\* that group cover all its members.
C21_GroupLostOnlyByOwnMarks ==
    Built =>
        \A g \in 1..Len(last_scan_results) :
            \/ Spared(g) # {}
            \/ /\ mode = "m"
               /\ Range(Files(g)) \subseteq {final_delete_tasks[i] : i \in TasksFrom(g)}

\* A batch run has forwarded both candidates of a three-member group and
\* spared its keep.
C21_Witness ==
    /\ Built /\ mode = "a"
    /\ \E g \in 1..Len(last_scan_results) :
         Cardinality(TasksFrom(g)) = 2 /\ Spared(g) = {1}

\* C22: a DELETE request is sent only after, in this order, the delete list
\* was found non-empty, the operator answered YES (stripped, as lines 93 and
\* 576 read it) and login_user returned True; after any other answer or a
\* failed login the wizard is over with no DELETE request sent.
C22_Gate ==
    /\ requests # <<>> =>
         /\ final_delete_tasks # <<>>
         /\ Len(answers) = 2
         /\ answers[1].at = "confirm" /\ strip(answers[1].typed) = YES
         /\ answers[2].at = "login" /\ answers[2].ok
    /\ (answers # <<>> /\ strip(answers[1].typed) # YES) =>
         pc = "done" /\ requests = <<>> /\ Len(answers) = 1
    /\ (Len(answers) = 2 /\ ~answers[2].ok) => pc = "done" /\ requests = <<>>

C22_Order ==
    /\ answers' # answers =>
         /\ final_delete_tasks # <<>> /\ final_delete_tasks' = final_delete_tasks
         /\ requests = <<>> /\ requests' = <<>>
         /\ Len(answers') = 1 => answers'[1].at = "confirm"
    /\ requests' # requests => answers' = answers

C22_DeleteOnlyAfterYesAndLogin == [](C22_Gate) /\ [][C22_Order]_vars

\* A DELETE request was sent after the operator typed YES between blanks.
C22_Witness ==
    /\ requests # <<>>
    /\ answers[1].typed # YES

\* C23: within one run of the wizard no two entries of final_delete_tasks have
\* the same id, and no id is the target of two DELETE requests.
C23_NoIdQueuedTwice ==
    /\ \A i, j \in 1..Len(final_delete_tasks) :
         i # j => final_delete_tasks[i].id # final_delete_tasks[j].id
    /\ \A i, j \in 1..Len(requests) : i # j => requests[i].id # requests[j].id

(***************************************************************************)
(* Properties of _request and of the deletion loop.                        *)
(***************************************************************************)
InRequest == pc \in {"attempt", "returned"}

\* C24: a call of _request makes at most three attempts; every attempt but
\* the last ended in URLError (HTTPError is one) or TimeoutError; the sleeps
\* before the second and the third attempt are of 2 and 4 seconds; the call
\* returns the response of the first attempt that got one, None after a third
\* URLError or TimeoutError and None at once after any other exception; it
\* ends in a return, never in an exception.
C24_BoundedRetry ==
    InRequest =>
        /\ Len(tries) <= 3
        /\ \A i \in 1..(Len(tries) - 1) :
               tries[i] \in {"URLError", "HTTPError", "TimeoutError"}
        /\ pc = "attempt" =>
               /\ result = "pending"
               /\ Len(tries) = attempt /\ attempt < 3
               /\ \A i \in 1..Len(tries) :
                      tries[i] \in {"URLError", "HTTPError", "TimeoutError"}
               /\ slept = SubSeq(<<2, 4>>, 1, Len(tries))
        /\ pc = "returned" =>
               /\ tries # <<>>
               /\ slept = SubSeq(<<2, 4>>, 1, Len(tries) - 1)
               /\ LET last == tries[Len(tries)]
                  IN  /\ last = "204" => result = "{}"
                      /\ last = "json" => result = "body"
                      /\ last \in {"null", "badjson", "other"} => result = "None"
                      /\ last \in {"URLError", "HTTPError", "TimeoutError"} =>
                             result = "None" /\ Len(tries) = 3

\* A call has returned a response at the third attempt, after sleeps of 2 and
\* 4 seconds.
C24_Witness ==
    /\ pc = "returned"
    /\ slept = <<2, 4>>
    /\ result = "{}"

\* C25: the deletion loop sends one DELETE per entry of final_delete_tasks, in
\* list order; a DELETE that returned None leaves the requests sent before it
\* as they are and the loop goes on to the last entry; success counts the
\* entries whose DELETE returned something other than None.
C25_Loop ==
    /\ Len(requests) <= Len(final_delete_tasks)
    /\ \A i \in 1..Len(requests) : requests[i].id = final_delete_tasks[i].id
    /\ success = Cardinality({i \in 1..Len(requests) : requests[i].ok})
    /\ (requests # <<>> /\ pc = "done") => Len(requests) = Len(final_delete_tasks)
    /\ pc \in {"delete", "attempt", "returned"} =>
           Len(requests) < Len(final_delete_tasks)

C25_Step ==
    requests' # requests =>
        /\ Len(requests') = Len(requests) + 1
        /\ SubSeq(requests', 1, Len(requests)) = requests
        /\ requests'[Len(requests')].ok = (result # "None")
        /\ success' >= success
        /\ final_delete_tasks' = final_delete_tasks

C25_EachTaskOnceInOrder == [](C25_Loop) /\ [][C25_Step]_vars

\* The loop has ended after two DELETE requests; the first returned None, the
\* second a response.
C25_Witness ==
    /\ pc = "done"
    /\ Len(requests) = 2
    /\ ~requests[1].ok /\ requests[2].ok
    /\ success = 1

(***************************************************************************)
(* Properties of _fetch_all_items.                                         *)
(***************************************************************************)
AllAnswered == \A i \in 1..Len(pages) : pages[i].got # Null

\* C26: every page request is sent with StartIndex equal to the number of
\* records accumulated so far; while every request is answered the list is
\* the catalog's records from the first on, none twice and none skipped, and
\* the whole catalog when the loop has ended; the loop goes on only after a
\* full page, so it sends at most one request more than the catalog has full
\* pages, and it ends.
C26_Pages ==
    /\ \A i \in 1..Len(pages) :
         /\ pages[i].StartIndex = pages[i].have
         /\ pages[i].have = (i - 1) * pages[i].Limit
         /\ i < Len(pages) => pages[i].got = pages[i].Limit
    /\ pc = "fetching" =>
         /\ start_index = Len(all_items)
         /\ pages # <<>> => pages[Len(pages)].got = pages[Len(pages)].Limit
    /\ AllAnswered =>
         /\ all_items = SubSeq(items, 1, Len(all_items))
         /\ (pc = "fetched" => all_items = items)
    /\ pages # <<>> =>
         (Len(pages) - 1) * pages[1].Limit <= Len(items)

C26_PagingEnds == [](C26_Pages) /\ (pc = "fetching" ~> pc = "fetched")

\* A catalog of three records was fetched in two answered requests, a full
\* page and a short one.
C26_Witness ==
    /\ pc = "fetched"
    /\ Len(pages) = 2 /\ AllAnswered
    /\ Len(all_items) = 3

\* The last page request got no response, after at least one page came in.
Truncated == Len(pages) > 1 /\ pages[Len(pages)].got = Null

\* C27: a page request that fails after a page was fetched ends the paging
\* with a plain return of the records accumulated so far; run_scanner buckets
\* and filters them, and the batch mode plans the deletions, exactly as for a
\* catalog that holds these records and no more.
C27_Partial ==
    Truncated =>
        /\ pc # "fetching"
        /\ all_items = SubSeq(items, 1, (Len(pages) - 1) * pages[1].Limit)
        /\ pc \notin {"fetched", "crashed"} =>
               /\ groups = ScanItems(ctype, scan_mode, all_items, 1, ScanStart).buckets
               /\ lib_file_count
                      = ScanItems(ctype, scan_mode, all_items, 1, ScanStart).lib_file_count
        /\ pc \notin {"fetched", "grouped", "crashed"} =>
               last_scan_results = ScanOf(ctype, scan_mode, all_items)
        /\ BatchPlanned => final_delete_tasks = BatchPlan(last_scan_results, 1)

C27_Step ==
    pc = "fetching" => pc' \in {"fetching", "fetched"}

C27_TruncatedListingScanned == [](C27_Partial) /\ [][C27_Step]_vars

\* The second page request of a catalog of three records failed, and the
\* batch mode has planned a deletion from the two records of the first page.
C27_Witness ==
    /\ Truncated /\ BatchPlanned
    /\ Len(all_items) < Len(items)
    /\ final_delete_tasks # <<>>

(***************************************************************************)
(* Properties of the appends.                                              *)
(***************************************************************************)
\* The appends that went to bucket k, in the order made.
RECURSIVE PlacedIn(_, _)
PlacedIn(k, p) ==
    IF p > Len(placed) THEN <<>>
    ELSE (IF placed[p].bucket = k THEN <<p>> ELSE <<>>) \o PlacedIn(k, p + 1)

IsPermutation(a, b) ==
    /\ Len(a) = Len(b)
    /\ \A x \in Range(a) \cup Range(b) :
           Cardinality({i \in 1..Len(a) : a[i] = x})
               = Cardinality({i \in 1..Len(b) : b[i] = x})

\* C28: a scan appends every media source with a size other than zero once,
\* to one bucket, the sources in the order of the catalog, and a bucket holds
\* its appends in that order; no file record is in two groups of
\* last_scan_results, every group's files are its bucket's in some order, and
\* in batch mode the kept file files[0] of a group is no entry of
\* final_delete_tasks.
C28_OneBucketPerSource ==
    /\ Scanned =>
         /\ \A s \in SizedSources :
                Cardinality({p \in 1..Len(placed) :
                                <<placed[p].item, placed[p].source>> = s}) = 1
         /\ \A p \in 1..Len(placed) :
                /\ <<placed[p].item, placed[p].source>> \in SizedSources
                /\ placed[p].bucket \in 1..Len(groups)
         /\ \A p, q \in 1..Len(placed) :
                p < q => \/ placed[p].item < placed[q].item
                         \/ /\ placed[p].item = placed[q].item
                            /\ placed[p].source < placed[q].source
         /\ \A k \in 1..Len(groups) :
                LET ps == PlacedIn(k, 1)
                IN  /\ Len(groups[k].files) = Len(ps)
                    /\ \A n \in 1..Len(ps) :
                           /\ groups[k].files[n].id = ItemOf(ps[n]).Id
                           /\ groups[k].files[n].media_source_id = SourceOf(ps[n]).Id
                           /\ groups[k].files[n].path = SourceOf(ps[n]).Path
                           /\ groups[k].files[n].size = SizeOf(ps[n])
    /\ Filtered =>
         /\ \A g, h \in 1..Len(last_scan_results) :
                g # h => Range(Files(g)) \cap Range(Files(h)) = {}
         /\ \A g \in 1..Len(last_scan_results) :
                \E k \in 1..Len(groups) :
                    /\ groups[k].key = last_scan_results[g].group_key
                    /\ IsPermutation(Files(g), groups[k].files)
         /\ mode = "a" =>
                \A g \in 1..Len(last_scan_results) :
                    Keep(g) \notin Range(final_delete_tasks)

\* A batch run over two groups has planned deletions; the files of one group
\* are in another order than its bucket holds them.
C28_Witness ==
    /\ BatchPlanned
    /\ Len(last_scan_results) = 2
    /\ final_delete_tasks # <<>>
    /\ \E g \in 1..Len(last_scan_results) :
           Files(g) # groups[BucketOfGroup(g)].files

====
